---- MODULE Spec2Model ----
(***************************************************************************)
(* Model of the notebook "Tutorial 8 Spin and Sparse": the cells run top   *)
(* to bottom, one action per state-changing cell (loops: one action per    *)
(* iteration).  The notebook's variables are the model's variables.        *)
(*                                                                         *)
(* Numbers are exact: a number is a triple <<re, im, den>> standing for    *)
(* (re + im*j)/den in lowest terms, den > 0.  Floating-point rounding is   *)
(* not modelled.  An ndarray is a record [dtype, a] with a[r][c] indexed   *)
(* from 0 as in the source.                                                *)
(***************************************************************************)
EXTENDS Integers, Sequences, FiniteSets, TLC

(* ------------------------------ bounds -------------------------------- *)
\* components of the field vector B range over -1..MaxB
MaxB == 1
\* matrix sizes standing in for the literals 500 and 10000 range over 1..MaxNodes
MaxNodes == 4
\* the value standing in for the literal Repeats = 1000
RepeatsVal == 2

(* --------------------------- exact numbers ---------------------------- *)
Abs(n) == IF n < 0 THEN -n ELSE n

RECURSIVE GCD(_, _)
GCD(a, b) == IF b = 0 THEN a ELSE GCD(b, a % b)

\* the number (re + im*j)/den, den # 0, in lowest terms with den > 0
Q(re, im, den) ==
    LET g == GCD(GCD(Abs(re), Abs(im)), Abs(den))
        s == IF den < 0 THEN -1 ELSE 1
    IN  <<(s * re) \div g, (s * im) \div g, (s * den) \div g>>

Qi(n) == <<n, 0, 1>>
Zero == Qi(0)
IsReal(x) == x[2] = 0
CAdd(x, y) == Q(x[1] * y[3] + y[1] * x[3], x[2] * y[3] + y[2] * x[3], x[3] * y[3])
CMul(x, y) == Q(x[1] * y[1] - x[2] * y[2], x[1] * y[2] + x[2] * y[1], x[3] * y[3])
CConj(x) == <<x[1], -x[2], x[3]>>
\* x / y for a real y # 0
CDivReal(x, y) == Q(x[1] * y[3], x[2] * y[3], x[3] * y[1])

(* ------------------------------ ndarrays ------------------------------ *)
DTypeRank(d) == CASE d = "int64" -> 0 [] d = "float64" -> 1 [] d = "complex128" -> 2
\* numpy's result type of two operands
Promote(d1, d2) == IF DTypeRank(d1) >= DTypeRank(d2) THEN d1 ELSE d2

Idx(n) == 0 .. (n - 1)
Rows(M) == Cardinality(DOMAIN M.a)
\* the square array of dtype d with the entries m[r][c]
NdArray(d, m) == [dtype |-> d, a |-> m]

\* M1 + M2, elementwise
MatAdd(M1, M2) ==
    NdArray(Promote(M1.dtype, M2.dtype), [r \in Idx(Rows(M1)) |-> [c \in Idx(Rows(M1)) |->
        CAdd(M1.a[r][c], M2.a[r][c])]])

\* s * M for a Python float s
FloatTimes(s, M) ==
    NdArray(Promote("float64", M.dtype), [r \in Idx(Rows(M)) |-> [c \in Idx(Rows(M)) |->
        CMul(s, M.a[r][c])]])

\* k * M for a Python int or numpy int64 k
IntTimes(k, M) ==
    NdArray(M.dtype, [r \in Idx(Rows(M)) |-> [c \in Idx(Rows(M)) |->
        CMul(Qi(k), M.a[r][c])]])

\* M / s for a Python float s # 0 (true division: at least float64)
FloatDiv(M, s) ==
    NdArray(Promote("float64", M.dtype), [r \in Idx(Rows(M)) |-> [c \in Idx(Rows(M)) |->
        CDivReal(M.a[r][c], s)]])

\* np.kron(M1, M2): block (i, j) of the result is M1[i][j] * M2
np_kron(M1, M2) ==
    LET p == Rows(M2)
    IN  NdArray(Promote(M1.dtype, M2.dtype),
                [r \in Idx(Rows(M1) * p) |-> [c \in Idx(Rows(M1) * p) |->
                    CMul(M1.a[r \div p][c \div p], M2.a[r % p][c % p])]])

\* the Python list [x]*k (empty for k <= 0)
ListOf(x, k) == [j \in 1 .. k |-> x]

\* np.diag(v, k) of a list v: v on the k-th diagonal of a square matrix of size
\* len(v) + |k|; the dtype is the list's (an empty list is a float64 array)
np_diag(v, k) ==
    LET n == Len(v) + Abs(k)
    IN  NdArray(IF Len(v) = 0 THEN "float64" ELSE "int64",
                [r \in Idx(n) |-> [c \in Idx(n) |->
                    IF c - r = k THEN Qi(v[(IF k >= 0 THEN r ELSE c) + 1]) ELSE Zero]])

(* ----------------------- the notebook's variables --------------------- *)
VARIABLES
    pc,         \* the next cell (or loop position) to run
    consts,     \* e, h, ge, gn, mu_B, mu_n, A as a record
    B, I,       \* field vector, 2x2 identity
    X, Y, Z,    \* half-Pauli matrices
    H_zn, H_ze, H_z, H_hf,
    H,          \* the Hamiltonian, later the finite-difference matrix
    vals, vecs, \* result of np.linalg.eigh
    i, it,      \* loop variable and the position of the running range()
    a,          \* the variable the timing loops assign
    eig_out,    \* what the eigenvalue loop printed
    H_csc, H_csr, H_dok, H_lil,   \* sparse representations
    H_normal,   \* H_csr.todense()
    nodes, Repeats,
    mean_out,   \* the five means printed by the mean cell
    bench_out,  \* per addition benchmark: the printed title, N, additions done
    size_out    \* the three sizes printed by the size cell

spin_vars == <<consts, B, I, X, Y, Z, H_zn, H_ze, H_z, H_hf, vals, vecs, eig_out>>
sparse_vars == <<H_csc, H_csr, H_dok, H_lil, H_normal, nodes, Repeats, mean_out, bench_out, size_out>>
vars == <<pc, H, i, it, a, spin_vars, sparse_vars>>

\* a Python name not yet bound
None == "None"

(* ------------------------------ inputs -------------------------------- *)
BVals == -1 .. MaxB

\* values tried for (gn, mu_n, ge, mu_B, A, e, h); h # 0
ConstChoices ==
    { [gn |-> Q(-9, 0, 4), mu_n |-> Qi(3),       ge |-> Qi(2),       mu_B |-> Qi(5),  A |-> Qi(7),  e |-> Qi(2),  h |-> Qi(3)],
      [gn |-> Qi(-2),      mu_n |-> Q(1, 0, 3),  ge |-> Qi(-1),      mu_B |-> Qi(2),  A |-> Qi(-3), e |-> Qi(-1), h |-> Qi(2)],
      [gn |-> Qi(0),       mu_n |-> Qi(2),       ge |-> Q(3, 0, 2),  mu_B |-> Qi(0),  A |-> Qi(0),  e |-> Qi(0),  h |-> Qi(-1)] }

Init ==
    /\ pc = "constants"
    /\ consts = None /\ B = None /\ I = None
    /\ X = None /\ Y = None /\ Z = None
    /\ H_zn = None /\ H_ze = None /\ H_z = None /\ H_hf = None /\ H = None
    /\ vals = None /\ vecs = None
    /\ i = None /\ it = None /\ a = None
    /\ eig_out = <<>>
    /\ H_csc = None /\ H_csr = None /\ H_dok = None /\ H_lil = None /\ H_normal = None
    /\ nodes = None /\ Repeats = None
    /\ mean_out = <<>> /\ bench_out = <<>> /\ size_out = <<>>

(* ------------------------------ spin cells ---------------------------- *)
\* I = np.diag([1]*2)
Identity2 == np_diag(ListOf(1, 2), 0)

\* "Setting up some constants": e, h, ge, gn, mu_B, mu_n, B, A, I
ConstantsCell ==
    /\ pc = "constants"
    /\ \E k \in ConstChoices, bx \in BVals, by \in BVals, bz \in BVals :
          /\ consts' = k
          /\ B' = <<bx, by, bz>>
    /\ I' = Identity2
    /\ pc' = "pauli"
    /\ UNCHANGED <<X, Y, Z, H_zn, H_ze, H_z, H_hf, H, vals, vecs, i, it, a, eig_out, sparse_vars>>

Half == Q(1, 0, 2)

\* X = 0.5*np.array([[0,1],[1,0]])
PauliX ==
    FloatTimes(Half, NdArray("int64", [r \in Idx(2) |-> [c \in Idx(2) |->
        IF r # c THEN Qi(1) ELSE Zero]]))

\* faulty variant of PauliY: the sign of the upper entry lost
PauliY_SignSlip ==
    FloatTimes(Half, NdArray("complex128", [r \in Idx(2) |-> [c \in Idx(2) |->
        IF r # c THEN <<0, 1, 1>> ELSE Zero]]))

\* Y = 0.5*np.array([[0, -1j],[1j, 0]])
PauliY ==
    FloatTimes(Half, NdArray("complex128", [r \in Idx(2) |-> [c \in Idx(2) |->
        IF r = 0 /\ c = 1 THEN <<0, -1, 1>>
        ELSE IF r = 1 /\ c = 0 THEN <<0, 1, 1>> ELSE Zero]]))

\* faulty variant of PauliZ: the sign of the lower entry lost
PauliZ_SignSlip ==
    FloatTimes(Half, NdArray("int64", [r \in Idx(2) |-> [c \in Idx(2) |->
        IF r # c THEN Zero ELSE Qi(1)]]))

\* Z = 0.5*np.array([[1, 0], [0, -1]])
PauliZ ==
    FloatTimes(Half, NdArray("int64", [r \in Idx(2) |-> [c \in Idx(2) |->
        IF r # c THEN Zero ELSE IF r = 0 THEN Qi(1) ELSE Qi(-1)]]))

PauliCell ==
    /\ pc = "pauli"
    /\ X' = PauliX /\ Y' = PauliY /\ Z' = PauliZ
    /\ pc' = "hzn"
    /\ UNCHANGED <<consts, B, I, H_zn, H_ze, H_z, H_hf, H, vals, vecs, i, it, a, eig_out, sparse_vars>>

\* B[0]*np.kron(kx, ky)... : the sum b[0]*T1 + b[1]*T2 + b[2]*T3, left to right
FieldDot(b, T1, T2, T3) ==
    MatAdd(MatAdd(IntTimes(b[1], T1), IntTimes(b[2], T2)), IntTimes(b[3], T3))

\* H_zn = gn*mu_n*(B[0]*np.kron(X, I)+B[1]*np.kron(Y, I)+ B[2]*np.kron(Z, I))
NuclearZeeman(k, b, x, y, z, id) ==
    FloatTimes(CMul(k.gn, k.mu_n), FieldDot(b, np_kron(x, id), np_kron(y, id), np_kron(z, id)))

HznCell ==
    /\ pc = "hzn"
    /\ H_zn' = NuclearZeeman(consts, B, X, Y, Z, I)
    /\ pc' = "hamiltonian"
    /\ UNCHANGED <<consts, B, I, X, Y, Z, H_ze, H_z, H_hf, H, vals, vecs, i, it, a, eig_out, sparse_vars>>

\* faulty variant of ElectronZeeman: the spin matrices put in the first tensor factor
ElectronZeeman_WrongFactor(k, b, x, y, z, id) ==
    FloatTimes(CMul(k.ge, k.mu_B), FieldDot(b, np_kron(x, id), np_kron(y, id), np_kron(z, id)))

\* H_ze = ge*mu_B*(B[0]*np.kron(I, X)+B[1]*np.kron(I, Y)+ B[2]*np.kron(I, Z))
ElectronZeeman(k, b, x, y, z, id) ==
    FloatTimes(CMul(k.ge, k.mu_B), FieldDot(b, np_kron(id, x), np_kron(id, y), np_kron(id, z)))

\* H_z = (H_zn + H_ze)*e/h
ZeemanHz(k, hzn, hze) == FloatDiv(FloatTimes(k.e, MatAdd(hzn, hze)), k.h)

\* faulty variant of Hyperfine: the Z term subtracted
Hyperfine_SignSlip(k, x, y, z) ==
    FloatTimes(k.A, MatAdd(MatAdd(np_kron(x, x), np_kron(y, y)), IntTimes(-1, np_kron(z, z))))

\* H_hf = A*(np.kron(X, X) + np.kron(Y, Y) + np.kron(Z, Z))
Hyperfine(k, x, y, z) ==
    FloatTimes(k.A, MatAdd(MatAdd(np_kron(x, x), np_kron(y, y)), np_kron(z, z)))

\* H = H_z + H_hf
TotalH(hz, hhf) == MatAdd(hz, hhf)

HamiltonianCell ==
    /\ pc = "hamiltonian"
    /\ H_ze' = ElectronZeeman(consts, B, X, Y, Z, I)
    /\ H_z' = ZeemanHz(consts, H_zn, H_ze')
    /\ H_hf' = Hyperfine(consts, X, Y, Z)
    /\ H' = TotalH(H_z', H_hf')
    /\ pc' = "eigh"
    /\ UNCHANGED <<consts, B, I, X, Y, Z, H_zn, vals, vecs, i, it, a, eig_out, sparse_vars>>

\* vals, vecs = np.linalg.eigh(H): the routine's results are kept as names, vals[k]
\* the k-th smallest eigenvalue of H and vecs[r][k] component r of its eigenvector
Eigh(M) ==
    [w |-> [k \in Idx(Rows(M)) |-> [eigenvalue |-> k]],
     v |-> [r \in Idx(Rows(M)) |-> [k \in Idx(Rows(M)) |-> [eigenvector |-> k, component |-> r]]]]

EighCell ==
    /\ pc = "eigh"
    /\ vals' = Eigh(H).w
    /\ vecs' = Eigh(H).v
    /\ it' = 0
    /\ pc' = "eigh_loop"
    /\ UNCHANGED <<consts, B, I, X, Y, Z, H_zn, H_ze, H_z, H_hf, H, i, a, eig_out, sparse_vars>>

\* vecs[:, k]
Column(M, k) == [r \in DOMAIN M |-> M[r][k]]

\* for i in range(len(vals)): print(i, vals[i], vecs[:,i])
EighPrint ==
    /\ pc = "eigh_loop"
    /\ it < Cardinality(DOMAIN vals)
    /\ i' = it
    /\ eig_out' = Append(eig_out, [index |-> i', value |-> vals[i'], vector |-> Column(vecs, i')])
    /\ it' = it + 1
    /\ UNCHANGED <<pc, consts, B, I, X, Y, Z, H_zn, H_ze, H_z, H_hf, H, vals, vecs, a, sparse_vars>>

EighLoopExit ==
    /\ pc = "eigh_loop"
    /\ it >= Cardinality(DOMAIN vals)
    /\ pc' = "conversion"
    /\ UNCHANGED <<consts, B, I, X, Y, Z, H_zn, H_ze, H_z, H_hf, H, vals, vecs, i, it, a, eig_out, sparse_vars>>

(* ------------------------- finite differences ------------------------- *)
\* def forward_diff_mat(nodes)
forward_diff_mat(n) ==
    MatAdd(MatAdd(np_diag(ListOf(-2, n), 0), np_diag(ListOf(1, n - 1), 1)),
           np_diag(ListOf(1, n - 1), -1))

\* H = -20*forward_diff_mat(n)
ScaledDiffMat(n) == IntTimes(-20, forward_diff_mat(n))

(* --------------------------- sparse formats --------------------------- *)
\* faulty variant of NonzeroCols: column 0 is never looked at
RECURSIVE NonzeroCols_OffByOne(_, _)
NonzeroCols_OffByOne(row, n) ==
    IF n <= 1 THEN <<>>
    ELSE IF row[n - 1] # Zero THEN Append(NonzeroCols_OffByOne(row, n - 1), n - 1)
    ELSE NonzeroCols_OffByOne(row, n - 1)

\* the columns c < n with row[c] # 0, ascending
RECURSIVE NonzeroCols(_, _)
NonzeroCols(row, n) ==
    IF n = 0 THEN <<>>
    ELSE IF row[n - 1] # Zero THEN Append(NonzeroCols(row, n - 1), n - 1)
    ELSE NonzeroCols(row, n - 1)

\* the values of row at the columns cols
Gather(row, cols) == [k \in 1 .. Len(cols) |-> row[cols[k]]]

Transpose(M) ==
    NdArray(M.dtype, [r \in Idx(Rows(M)) |-> [c \in Idx(Rows(M)) |->
        M.a[c][r]]])

\* sparse.lil_matrix(M): per row, the list of non-zero columns and the list of their values
lil_matrix(M) ==
    [format |-> "lil", dtype |-> M.dtype, shape |-> <<Rows(M), Rows(M)>>,
     rows |-> [r \in Idx(Rows(M)) |-> NonzeroCols(M.a[r], Rows(M))],
     data |-> [r \in Idx(Rows(M)) |-> Gather(M.a[r], NonzeroCols(M.a[r], Rows(M)))]]

\* the compressed arrays of the first n rows of M
RECURSIVE Compress(_, _)
Compress(M, n) ==
    IF n = 0 THEN [data |-> <<>>, indices |-> <<>>, indptr |-> <<0>>]
    ELSE LET prev == Compress(M, n - 1)
             cols == NonzeroCols(M.a[n - 1], Rows(M))
         IN  [data |-> prev.data \o Gather(M.a[n - 1], cols),
              indices |-> prev.indices \o cols,
              indptr |-> Append(prev.indptr, Len(prev.indices) + Len(cols))]

\* sparse.csr_matrix(M): the non-zero entries row by row
csr_matrix(M) ==
    LET z == Compress(M, Rows(M))
    IN  [format |-> "csr", dtype |-> M.dtype, shape |-> <<Rows(M), Rows(M)>>,
         data |-> z.data, indices |-> z.indices, indptr |-> z.indptr]

\* sparse.csc_matrix(M): the non-zero entries column by column
csc_matrix(M) ==
    LET z == Compress(Transpose(M), Rows(M))
    IN  [format |-> "csc", dtype |-> M.dtype, shape |-> <<Rows(M), Rows(M)>>,
         data |-> z.data, indices |-> z.indices, indptr |-> z.indptr]

\* sparse.dok_matrix(M): a dictionary from (row, column) to the non-zero value there
dok_matrix(M) ==
    [format |-> "dok", dtype |-> M.dtype, shape |-> <<Rows(M), Rows(M)>>,
     dict |-> [p \in {q \in Idx(Rows(M)) \X Idx(Rows(M)) : M.a[q[1]][q[2]] # Zero}
                  |-> M.a[p[1]][p[2]]]]

\* the sum of f[k] over the finite set S
RECURSIVE SumOver(_, _)
SumOver(f, S) ==
    IF S = {} THEN Zero
    ELSE LET k == CHOOSE x \in S : TRUE IN CAdd(f[k], SumOver(f, S \ {k}))

\* the stored entries of a compressed matrix that fall on (major, minor), summed
CompressedAt(S, major, minor) ==
    SumOver(S.data, {k \in (S.indptr[major + 1] + 1) .. S.indptr[major + 2] : S.indices[k] = minor})

\* S.todense() for each format
todense(S) ==
    NdArray(S.dtype, [r \in Idx(S.shape[1]) |-> [c \in Idx(S.shape[2]) |->
        CASE S.format = "csr" -> CompressedAt(S, r, c)
          [] S.format = "csc" -> CompressedAt(S, c, r)
          [] S.format = "dok" -> IF <<r, c>> \in DOMAIN S.dict THEN S.dict[<<r, c>>] ELSE Zero
          [] S.format = "lil" -> SumOver(S.data[r], {k \in 1 .. Len(S.rows[r]) : S.rows[r][k] = c})]])

\* the values a sparse matrix stores, as a bag: position -> value
Stored(S) ==
    CASE S.format \in {"csr", "csc"} -> [k \in 1 .. Len(S.data) |-> S.data[k]]
      [] S.format = "dok" -> S.dict
      [] S.format = "lil" ->
            [p \in {q \in Idx(S.shape[1]) \X (1 .. S.shape[2]) : q[2] <= Len(S.data[q[1]])}
                |-> S.data[p[1]][p[2]]]

\* S.nnz
nnz(S) == Cardinality(DOMAIN Stored(S))

\* S / count: the sparse matrix with every stored value divided by count
sparse_div(S, count) ==
    CASE S.format \in {"csr", "csc"} ->
            [S EXCEPT !.data = [k \in DOMAIN S.data |-> CDivReal(S.data[k], count)]]
      [] S.format = "dok" -> [S EXCEPT !.dict = [p \in DOMAIN S.dict |-> CDivReal(S.dict[p], count)]]
      [] S.format = "lil" ->
            [S EXCEPT !.data = [r \in DOMAIN S.data |->
                                  [k \in DOMAIN S.data[r] |-> CDivReal(S.data[r][k], count)]]]

\* S1 + S2 of two sparse matrices: a CSR matrix of the non-zero sums
sparse_add(S1, S2) == csr_matrix(MatAdd(todense(S1), todense(S2)))

\* Make our matrix ... different sparse representations of this matrix
ConversionCell ==
    /\ pc = "conversion"
    /\ \E n \in 1 .. MaxNodes : H' = ScaledDiffMat(n)
    /\ H_csc' = csc_matrix(H')
    /\ H_csr' = csr_matrix(H')
    /\ H_dok' = dok_matrix(H')
    /\ H_lil' = lil_matrix(H')
    /\ pc' = "todense"
    /\ UNCHANGED <<i, it, a, spin_vars, H_normal, nodes, Repeats, mean_out, bench_out, size_out>>

\* H_normal = H_csr.todense()
TodenseCell ==
    /\ pc = "todense"
    /\ H_normal' = todense(H_csr)
    /\ pc' = "mean"
    /\ UNCHANGED <<H, i, it, a, spin_vars, H_csc, H_csr, H_dok, H_lil, nodes, Repeats, mean_out, bench_out, size_out>>

\* the sum of all entries of a dense matrix
DenseSum(M) == SumOver([p \in Idx(Rows(M)) \X Idx(Rows(M)) |-> M.a[p[1]][p[2]]],
                       Idx(Rows(M)) \X Idx(Rows(M)))

\* np.mean(M): the sum of the entries divided by their number
np_mean(M) == CDivReal(DenseSum(M), Qi(Rows(M) * Rows(M)))

\* faulty variant of sparse_mean: the mean taken over the stored values only
sparse_mean_OverStored(S) ==
    LET scaled == Stored(sparse_div(S, Qi(Cardinality(DOMAIN Stored(S)))))
    IN  SumOver(scaled, DOMAIN scaled)

\* S.mean(): the stored values, each divided by the number of entries, summed
sparse_mean(S) ==
    LET scaled == Stored(sparse_div(S, Qi(S.shape[1] * S.shape[2])))
    IN  SumOver(scaled, DOMAIN scaled)

\* "Calculating the mean value": dense, CSC, CSR, LIL, DOK in the order printed
MeanCell ==
    /\ pc = "mean"
    /\ mean_out' = <<np_mean(H), sparse_mean(H_csc), sparse_mean(H_csr),
                     sparse_mean(H_lil), sparse_mean(H_dok)>>
    /\ pc' = "timing_demo"
    /\ UNCHANGED <<H, i, it, a, spin_vars, H_csc, H_csr, H_dok, H_lil, H_normal, nodes, Repeats, bench_out, size_out>>

\* for i in range(1000000): a = 1+2
TimingDemoCell ==
    /\ pc = "timing_demo"
    /\ a' = 1 + 2
    /\ i' = 1000000 - 1
    /\ pc' = "timing"
    /\ UNCHANGED <<H, it, spin_vars, sparse_vars>>

\* nodes = 10000; H = -20*forward_diff_mat(nodes); H_csr = ...; H_lil = ...
TimingCell ==
    /\ pc = "timing"
    /\ \E n \in 1 .. MaxNodes : nodes' = n
    /\ H' = ScaledDiffMat(nodes')
    /\ H_csr' = csr_matrix(H')
    /\ H_lil' = lil_matrix(H')
    /\ pc' = "repeats"
    /\ UNCHANGED <<i, it, a, spin_vars, H_csc, H_dok, H_normal, Repeats, mean_out, bench_out, size_out>>

\* Repeats = 1000
RepeatsCell ==
    /\ pc = "repeats"
    /\ Repeats' = RepeatsVal
    /\ pc' = "add_dense"
    /\ UNCHANGED <<H, i, it, a, spin_vars, H_csc, H_csr, H_dok, H_lil, H_normal, nodes, mean_out, bench_out, size_out>>

\* the operand a benchmark adds to itself
Operand(kind) ==
    CASE kind = "ordinary" -> H [] kind = "CSR sparse" -> H_csr [] kind = "LIL sparse" -> H_lil

\* x + x for the benchmark's operand
SelfAdd(kind, x) == IF kind = "ordinary" THEN MatAdd(x, x) ELSE sparse_add(x, x)

\* print('Adding 2 <kind> Matricies of size N = %s'% nodes); start = ...
BenchBegin(at, kind) ==
    /\ pc = at
    /\ bench_out' = Append(bench_out, [title |-> kind, N |-> nodes, adds |-> 0])
    /\ it' = 0
    /\ pc' = at \o "_loop"
    /\ UNCHANGED <<H, i, a, spin_vars, H_csc, H_csr, H_dok, H_lil, H_normal, nodes, Repeats, mean_out, size_out>>

\* faulty variant of BenchStep: the dense benchmark accumulates into H (H = H + H)
BenchStep_Accumulates(at, kind) ==
    /\ pc = at \o "_loop"
    /\ it < Repeats
    /\ i' = it
    /\ a' = SelfAdd(kind, Operand(kind))
    /\ H' = IF kind = "ordinary" THEN a' ELSE H
    /\ bench_out' = [bench_out EXCEPT ![Len(bench_out)].adds = @ + 1]
    /\ it' = it + 1
    /\ UNCHANGED <<pc, spin_vars, H_csc, H_csr, H_dok, H_lil, H_normal, nodes, Repeats, mean_out, size_out>>

\* for i in range(Repeats): a = x + x
BenchStep(at, kind) ==
    /\ pc = at \o "_loop"
    /\ it < Repeats
    /\ i' = it
    /\ a' = SelfAdd(kind, Operand(kind))
    /\ bench_out' = [bench_out EXCEPT ![Len(bench_out)].adds = @ + 1]
    /\ it' = it + 1
    /\ UNCHANGED <<pc, H, spin_vars, H_csc, H_csr, H_dok, H_lil, H_normal, nodes, Repeats, mean_out, size_out>>

\* end = ...; print(end-start)
BenchEnd(at, then) ==
    /\ pc = at \o "_loop"
    /\ it >= Repeats
    /\ pc' = then
    /\ UNCHANGED <<H, i, it, a, spin_vars, sparse_vars>>

AddDenseBegin == BenchBegin("add_dense", "ordinary")
AddDenseStep == BenchStep("add_dense", "ordinary")
AddDenseEnd == BenchEnd("add_dense", "add_csr")
AddCsrBegin == BenchBegin("add_csr", "CSR sparse")
AddCsrStep == BenchStep("add_csr", "CSR sparse")
AddCsrEnd == BenchEnd("add_csr", "add_lil")
AddLilBegin == BenchBegin("add_lil", "LIL sparse")
AddLilStep == BenchStep("add_lil", "LIL sparse")
AddLilEnd == BenchEnd("add_lil", "size")

\* bytes of one element of an array of the dtype
ItemSize(d) == IF d = "complex128" THEN 16 ELSE 8

\* M.data.nbytes of a dense array: the whole buffer
dense_data_nbytes(M) == Rows(M) * Rows(M) * ItemSize(M.dtype)

\* S.data.nbytes: of CSR, the array of stored values; of LIL, the object array
\* holding one reference (8 bytes) per row
sparse_data_nbytes(S) ==
    IF S.format = "lil" THEN Cardinality(DOMAIN S.data) * 8
    ELSE Len(S.data) * ItemSize(S.dtype)

\* bytes/(1024**2)
MB(bytes) == Q(bytes, 0, 1024 * 1024)

\* "Let's see how large our representations are"
SizeCell ==
    /\ pc = "size"
    /\ \E n \in 1 .. MaxNodes : H' = ScaledDiffMat(n)
    /\ H_csr' = csr_matrix(H')
    /\ H_lil' = lil_matrix(H')
    /\ size_out' = <<MB(dense_data_nbytes(H')), MB(sparse_data_nbytes(H_csr')),
                     MB(sparse_data_nbytes(H_lil'))>>
    /\ pc' = "done"
    /\ UNCHANGED <<i, it, a, spin_vars, H_csc, H_dok, H_normal, nodes, Repeats, mean_out, bench_out>>

Next ==
    \/ ConstantsCell
    \/ PauliCell
    \/ HznCell
    \/ HamiltonianCell
    \/ EighCell
    \/ EighPrint
    \/ EighLoopExit
    \/ ConversionCell
    \/ TodenseCell
    \/ MeanCell
    \/ TimingDemoCell
    \/ TimingCell
    \/ RepeatsCell
    \/ AddDenseBegin \/ AddDenseStep \/ AddDenseEnd
    \/ AddCsrBegin \/ AddCsrStep \/ AddCsrEnd
    \/ AddLilBegin \/ AddLilStep \/ AddLilEnd
    \/ SizeCell

Spec == Init /\ [][Next]_vars

(* ====================================================================== *)
(* Properties.  Matrices are compared by their entries (field a).         *)
(* ====================================================================== *)
\* plain matrix algebra used to state the properties
MPlus(P, R) == [r \in DOMAIN P |-> [c \in DOMAIN P |-> CAdd(P[r][c], R[r][c])]]
MScale(s, P) == [r \in DOMAIN P |-> [c \in DOMAIN P |-> CMul(s, P[r][c])]]
MTimes(P, R) ==
    [r \in DOMAIN P |-> [c \in DOMAIN P |->
        SumOver([k \in DOMAIN P |-> CMul(P[r][k], R[k][c])], DOMAIN P)]]
Trace(P) == SumOver([k \in DOMAIN P |-> P[k][k]], DOMAIN P)

\* H is complete and about to be handed to np.linalg.eigh
SpinHamiltonianBuilt == pc = "eigh"

\* nuclear and electron spin operators: first and second tensor factor
Iop(k) == np_kron(k, Identity2).a
Sop(k) == np_kron(Identity2, k).a

\* gn*mu_n*(B.I), ge*mu_B*(B.S) and A*(I.S) as the notebook's formula writes them
FormulaZn ==
    MScale(CMul(consts.gn, consts.mu_n),
           MPlus(MPlus(MScale(Qi(B[1]), Iop(X)), MScale(Qi(B[2]), Iop(Y))), MScale(Qi(B[3]), Iop(Z))))
FormulaZe ==
    MScale(CMul(consts.ge, consts.mu_B),
           MPlus(MPlus(MScale(Qi(B[1]), Sop(X)), MScale(Qi(B[2]), Sop(Y))), MScale(Qi(B[3]), Sop(Z))))
FormulaHf ==
    MScale(consts.A,
           MPlus(MPlus(MTimes(Iop(X), Sop(X)), MTimes(Iop(Y), Sop(Y))), MTimes(Iop(Z), Sop(Z))))

(* ------------------------------- C1 ----------------------------------- *)
\* C1: the matrix H handed to np.linalg.eigh is Hermitian: H[r][c] is the complex
\* conjugate of H[c][r] for all r, c in 0..3, whatever B and the constants are.
C1_Hermitian ==
    SpinHamiltonianBuilt =>
        /\ Rows(H) = 4
        /\ \A r \in Idx(4), c \in Idx(4) : H.a[r][c] = CConj(H.a[c][r])

\* the notebook's field B = (1, 1, 0) with an H that has a non-real entry
C1_Witness ==
    /\ pc = "eigh"
    /\ B = <<1, 1, 0>>
    /\ \E r \in Idx(4), c \in Idx(4) : ~IsReal(H.a[r][c])

C9_TensorProduct ==
    SpinHamiltonianBuilt =>
        /\ \A P \in {X, Y, Z}, R \in {X, Y, Z} :
              /\ MTimes(np_kron(P, I).a, np_kron(I, R).a) = np_kron(P, R).a
              /\ MTimes(np_kron(I, R).a, np_kron(P, I).a) = np_kron(P, R).a
        /\ H_hf.a = FormulaHf

\* a computed hyperfine term that is not the zero matrix
C9_Witness ==
    /\ pc = "eigh"
    /\ consts.A # Zero
    /\ \E r \in Idx(4), c \in Idx(4) : r # c /\ H_hf.a[r][c] # Zero

Tridiagonal(M, n) ==
    /\ DOMAIN M.a = Idx(n)
    /\ \A r \in Idx(n) :
          /\ DOMAIN M.a[r] = Idx(n)
          /\ \A c \in Idx(n) :
                M.a[r][c] = (IF r = c THEN Qi(-2) ELSE IF Abs(r - c) = 1 THEN Qi(1) ELSE Zero)

\* the cells after the timing cell ran forward_diff_mat(nodes)
NodesChosen ==
    pc \in {"repeats", "add_dense", "add_dense_loop", "add_csr", "add_csr_loop",
            "add_lil", "add_lil_loop", "size"}

\* C4 as stated: for every nodes >= 1, forward_diff_mat(nodes) is a nodes x nodes
\* integer matrix with -2 on the diagonal, 1 where |i - j| = 1 and 0 elsewhere.
C4_AsStated ==
    NodesChosen =>
        /\ Tridiagonal(forward_diff_mat(nodes), nodes)
        /\ forward_diff_mat(nodes).dtype = "int64"

\* the entries alone are as C4 says for every nodes >= 1
C4_Entries == NodesChosen => Tridiagonal(forward_diff_mat(nodes), nodes)

(* ------------------------------- C5 ----------------------------------- *)
\* the entries (row, column, value) a sparse matrix stores
Entries(S) ==
    CASE S.format = "csr" ->
            UNION {{<<r, S.indices[k], S.data[k]>> : k \in (S.indptr[r + 1] + 1) .. S.indptr[r + 2]} :
                        r \in Idx(S.shape[1])}
      [] S.format = "csc" ->
            UNION {{<<S.indices[k], c, S.data[k]>> : k \in (S.indptr[c + 1] + 1) .. S.indptr[c + 2]} :
                        c \in Idx(S.shape[2])}
      [] S.format = "dok" -> {<<p[1], p[2], S.dict[p]>> : p \in DOMAIN S.dict}
      [] S.format = "lil" ->
            UNION {{<<r, S.rows[r][k], S.data[r][k]>> : k \in 1 .. Len(S.rows[r])} : r \in DOMAIN S.rows}

\* the non-zero entries (row, column, value) of a dense matrix
NonzeroEntries(M) ==
    {<<r, c, M.a[r][c]>> : r \in Idx(Rows(M)), c \in Idx(Rows(M))} \ (Idx(Rows(M)) \X Idx(Rows(M)) \X {Zero})

\* the cells at which H and the four sparse matrices come from the conversion cell
Converted == pc \in {"todense", "mean", "timing_demo", "timing"}

RoundTrips(S) ==
    /\ todense(S) = H
    /\ S.shape = <<Rows(H), Rows(H)>>
    /\ Entries(S) = NonzeroEntries(H)
    /\ nnz(S) = 3 * Rows(H) - 2
    /\ nnz(S) = Cardinality(Entries(S))

\* C5: each of CSC, CSR, DOK, LIL made from H = -20*forward_diff_mat(n) gives H back
\* under todense(), entry for entry and with the shape n x n, and stores exactly the
\* 3n - 2 non-zero entries of H with their positions.
C5_RoundTrip ==
    /\ Converted => RoundTrips(H_csc) /\ RoundTrips(H_csr) /\ RoundTrips(H_dok) /\ RoundTrips(H_lil)
    /\ pc \in {"mean", "timing_demo", "timing"} => H_normal = H

\* a converted matrix with zero entries to leave out
C5_Witness ==
    /\ pc = "mean"
    /\ Rows(H) >= 3
    /\ H.a[0][2] = Zero
    /\ H_normal.a[0][1] = Qi(-20)

(* ------------------------------- C6 ----------------------------------- *)
\* bytes of a whole CSR representation: values, column indices and row pointers
\* (scipy keeps the two index arrays as int32 for matrices this small)
CsrTotalBytes(S) == Len(S.data) * ItemSize(S.dtype) + Len(S.indices) * 4 + Len(S.indptr) * 4

\* bytes of a whole LIL representation, counting only the references it keeps:
\* the two object arrays and one list slot per stored value and per stored column
LilTotalBytes(S) == 2 * Cardinality(DOMAIN S.data) * 8 + 2 * nnz(S) * 8

\* C6 as stated: the three numbers the size cell prints are the sizes in MB of the
\* whole dense matrix, the whole CSR representation and the whole LIL
\* representation, values and position information included.
C6_AsStated ==
    pc = "done" =>
        /\ size_out[1] = MB(Rows(H) * Rows(H) * ItemSize(H.dtype))
        /\ size_out[2] = MB(CsrTotalBytes(H_csr))
        /\ size_out[3] = MB(LilTotalBytes(H_lil))

(* ------------------------------- C7 ----------------------------------- *)
BenchLoops ==
    {"add_dense", "add_dense_loop", "add_csr", "add_csr_loop", "add_lil", "add_lil_loop"}

\* the benchmarks that have finished at the current cell
Finished ==
    CASE pc \in {"add_dense", "add_dense_loop"} -> 0
      [] pc \in {"add_csr", "add_csr_loop"} -> 1
      [] pc \in {"add_lil", "add_lil_loop"} -> 2
      [] OTHER -> 3

C7_State ==
    pc \in BenchLoops \cup {"size"} =>
        /\ Repeats = RepeatsVal
        /\ H = ScaledDiffMat(nodes)
        /\ Rows(H) = nodes
        /\ todense(H_csr) = H /\ H_csr.shape = <<nodes, nodes>>
        /\ todense(H_lil) = H /\ H_lil.shape = <<nodes, nodes>>
        /\ Len(bench_out) \in {Finished, Finished + 1}
        /\ \A k \in 1 .. Len(bench_out) :
              /\ bench_out[k].title = <<"ordinary", "CSR sparse", "LIL sparse">>[k]
              /\ bench_out[k].N = nodes
              /\ k <= Finished => bench_out[k].adds = Repeats
              \* a holds the sum made by the latest addition
              /\ (bench_out[k].adds > 0 /\ (k = Len(bench_out) \/ bench_out[k + 1].adds = 0)) =>
                    IF k = 1 THEN a = MatAdd(H, H) ELSE todense(a) = MatAdd(H, H)
        /\ pc = "size" => Len(bench_out) = 3

\* a step taken inside a benchmark cell changes none of the operands
C7_Frame == (pc \in BenchLoops) => UNCHANGED <<H, H_csr, H_lil, nodes, Repeats>>

\* C7: run top to bottom, each of the three addition benchmarks adds a
\* nodes x nodes matrix to itself exactly Repeats times, H, H_csr and H_lil all
\* hold -20*forward_diff_mat(nodes) while the loops run, and the loops leave H,
\* H_csr, H_lil, nodes and Repeats unchanged.
C7_Benchmarks ==
    /\ []C7_State
    /\ [][C7_Frame]_vars

\* all three benchmarks done on a matrix with off-diagonal entries
C7_Witness ==
    /\ pc = "size"
    /\ nodes >= 2
    /\ Len(bench_out) = 3
    /\ bench_out[3].adds = RepeatsVal
    /\ a.format = "csr"

(* ------------------------------- C8 ----------------------------------- *)
StoredSum(S) == SumOver(Stored(S), DOMAIN Stored(S))

\* C8: the five means printed by the mean cell are one value, the sum of all
\* entries of H divided by the number of entries, and the entry sum is the same
\* integer in the dense matrix and in H_csc, H_csr, H_lil and H_dok.
C8_Means ==
    pc \in {"timing_demo", "timing"} =>
        /\ Len(mean_out) = 5
        /\ \A k \in 1 .. 5 : mean_out[k] = Q(DenseSum(H)[1], 0, Rows(H) * Rows(H))
        /\ DenseSum(H)[2] = 0 /\ DenseSum(H)[3] = 1
        /\ \A S \in {H_csc, H_csr, H_lil, H_dok} : StoredSum(S) = DenseSum(H)

\* means printed for a matrix with more entries than stored values
C8_Witness ==
    /\ pc = "timing_demo"
    /\ Rows(H) >= 3
    /\ nnz(H_csr) < Rows(H) * Rows(H)
    /\ mean_out[1] # Zero

====
